---------------------------- MODULE Spec2Model ----------------------------
(***************************************************************************)
(* A model of slick-reporter (slickreporter.py): main() resolves the run    *)
(* context against the remote slick service (class Slick), runs the         *)
(* configured command, classifies every output line (class CommandTester)   *)
(* and files one result per matching line; the test run is finalized in     *)
(* main's finally clause.                                                   *)
(*                                                                          *)
(* Text is a sequence of one-character strings, so that str.format and      *)
(* int() are computed character by character.  An optional value (a         *)
(* missing configuration key, Python's None) is a record with a flag.       *)
(***************************************************************************)
EXTENDS Integers, Sequences, FiniteSets, TLC

(***************************************************************************)
(* Bounds of the model.                                                     *)
(***************************************************************************)
\* the number of output lines the tested command prints
MaxLines == 2
\* the wall clock, in half milliseconds, stops advancing here
MaxClock == 3
\* the most the clock advances while the program waits, in half milliseconds
MaxStep == 1

(***************************************************************************)
(* Optional values and text.                                                *)
(***************************************************************************)
None == [some |-> FALSE, val |-> <<>>]
Some(t) == [some |-> TRUE, val |-> t]

Digits == <<"0", "1", "2", "3", "4", "5", "6", "7", "8", "9">>

IsDigit(c) == \E d \in 1..10 : Digits[d] = c

DigitVal(c) == (CHOOSE d \in 1..10 : Digits[d] = c) - 1

\* the text as one string: the key a named replacement field looks up
RECURSIVE Join(_)
Join(t) == IF t = <<>> THEN "" ELSE Head(t) \o Join(Tail(t))

\* str(value): None prints as the word None
PyStr(v) == IF v.some THEN v.val ELSE <<"N", "o", "n", "e">>

(***************************************************************************)
(* int(round(time.time() * 1000)): the clock counts half milliseconds and   *)
(* round() rounds a tie to the even neighbour.                              *)
(***************************************************************************)
NowMs(c) ==
    LET q == c \div 2
    IN  IF c % 2 = 0 THEN q
        ELSE IF q % 2 = 0 THEN q ELSE q + 1

(***************************************************************************)
(* int(text): surrounding blanks are stripped, one sign is allowed, the     *)
(* rest must be decimal digits; anything else raises ValueError, and None   *)
(* raises TypeError.                                                        *)
(***************************************************************************)
RECURSIVE StripLeft(_)
StripLeft(t) == IF t # <<>> /\ Head(t) = " " THEN StripLeft(Tail(t)) ELSE t

RECURSIVE StripRight(_)
StripRight(t) ==
    IF t # <<>> /\ t[Len(t)] = " " THEN StripRight(SubSeq(t, 1, Len(t) - 1)) ELSE t

Strip(t) == StripRight(StripLeft(t))

RECURSIVE DigitsValue(_, _)
DigitsValue(t, acc) ==
    IF t = <<>> THEN acc ELSE DigitsValue(Tail(t), acc * 10 + DigitVal(Head(t)))

PyInt(v) ==
    IF ~v.some THEN [ok |-> FALSE, err |-> "TypeError", val |-> 0]
    ELSE LET s == Strip(v.val)
             neg == s # <<>> /\ Head(s) = "-"
             body == IF s # <<>> /\ Head(s) \in {"-", "+"} THEN Tail(s) ELSE s
         IN  IF body # <<>> /\ \A i \in 1..Len(body) : IsDigit(body[i])
             THEN [ok |-> TRUE, err |-> "",
                   val |-> IF neg THEN 0 - DigitsValue(body, 0) ELSE DigitsValue(body, 0)]
             ELSE [ok |-> FALSE, err |-> "ValueError", val |-> 0]

(***************************************************************************)
(* str.format on the match's groups and groupdict.  The template is read    *)
(* left to right into parts: text outside braces (with {{ and }} for        *)
(* literal braces), {} for the next positional group, {n} for the n-th      *)
(* (from 0), {key} for the named group; an unbalanced brace is an error     *)
(* part, met when the parts before it have been rendered.                   *)
(***************************************************************************)
\* the position of the first "}" at or after i, or 0
RECURSIVE CloseAt(_, _)
CloseAt(t, i) ==
    IF i > Len(t) THEN 0 ELSE IF t[i] = "}" THEN i ELSE CloseAt(t, i + 1)

Part(kind, text, index, key) == [kind |-> kind, text |-> text, index |-> index, key |-> key]

FieldPart(name) ==
    IF name = <<>> THEN Part("auto", <<>>, 0, "")
    ELSE IF \A i \in 1..Len(name) : IsDigit(name[i])
    THEN Part("index", <<>>, DigitsValue(name, 0), "")
    ELSE Part("key", <<>>, 0, Join(name))

\* text read so far goes out as a literal part before any other part
Flush(parts, text) == IF text = <<>> THEN parts ELSE Append(parts, Part("lit", text, 0, ""))

RECURSIVE ParseFrom(_, _, _, _)
ParseFrom(t, i, parts, text) ==
    IF i > Len(t) THEN Flush(parts, text)
    ELSE IF t[i] = "{"
    THEN IF i < Len(t) /\ t[i + 1] = "{"
         THEN ParseFrom(t, i + 2, parts, Append(text, "{"))
         ELSE LET j == CloseAt(t, i + 1)
              IN  IF j = 0 THEN Append(Flush(parts, text), Part("error", <<>>, 0, ""))
                  ELSE ParseFrom(t, j + 1,
                                 Append(Flush(parts, text), FieldPart(SubSeq(t, i + 1, j - 1))),
                                 <<>>)
    ELSE IF t[i] = "}"
    THEN IF i < Len(t) /\ t[i + 1] = "}"
         THEN ParseFrom(t, i + 2, parts, Append(text, "}"))
         ELSE Append(Flush(parts, text), Part("error", <<>>, 0, ""))
    ELSE ParseFrom(t, i + 1, parts, Append(text, t[i]))

ParseTemplate(t) == ParseFrom(t, 1, <<>>, <<>>)

Failure(err) == [ok |-> FALSE, err |-> err, val |-> <<>>]

\* numbering is "" until a positional field is seen, then "auto" ({}) or
\* "manual" ({n}); switching between the two raises ValueError.  A missing
\* index raises IndexError, a missing key KeyError
RECURSIVE RenderFrom(_, _, _, _, _, _, _)
RenderFrom(parts, k, numbering, auto, acc, groups, groupdict) ==
    IF k > Len(parts) THEN [ok |-> TRUE, err |-> "", val |-> acc]
    ELSE LET part == parts[k]
         IN  CASE part.kind = "lit" ->
                    RenderFrom(parts, k + 1, numbering, auto, acc \o part.text,
                               groups, groupdict)
               [] part.kind = "auto" ->
                    IF numbering = "manual" THEN Failure("ValueError")
                    ELSE IF auto + 1 \notin DOMAIN groups THEN Failure("IndexError")
                    ELSE RenderFrom(parts, k + 1, "auto", auto + 1,
                                    acc \o PyStr(groups[auto + 1]), groups, groupdict)
               [] part.kind = "index" ->
                    IF numbering = "auto" THEN Failure("ValueError")
                    ELSE IF part.index + 1 \notin DOMAIN groups THEN Failure("IndexError")
                    ELSE RenderFrom(parts, k + 1, "manual", auto,
                                    acc \o PyStr(groups[part.index + 1]), groups, groupdict)
               [] part.kind = "key" ->
                    IF part.key \notin DOMAIN groupdict THEN Failure("KeyError")
                    ELSE RenderFrom(parts, k + 1, numbering, auto,
                                    acc \o PyStr(groupdict[part.key]), groups, groupdict)
               [] OTHER -> Failure("ValueError")

(***************************************************************************)
(* Regular expressions.  The regex engine is the standard library's: a      *)
(* pattern is what the code reads of it, whether it compiles, its groups    *)
(* in positional order ("" for an unnamed group) and the named groups that  *)
(* may stay out of a match (their value is then None).                      *)
(***************************************************************************)
Pattern(valid, names, optional) ==
    [valid |-> valid, names |-> names, optional |-> optional]

InvalidRegex == Pattern(FALSE, <<>>, {})

\* a regular expression key that is not set
NoPattern == [some |-> FALSE, val |-> InvalidRegex]

\* match.groupdict(): every named group of the pattern, None when it took no part
GroupDict(pattern, groups) ==
    [n \in {pattern.names[i] : i \in 1..Len(pattern.names)} \ {""} |->
        groups[CHOOSE i \in 1..Len(pattern.names) : pattern.names[i] = n]]

(***************************************************************************)
(* The configuration: basic_configuration gives the shipped values.         *)
(***************************************************************************)
ProjectName == <<"A", "P">>
ReleaseName == <<"6">>
ComponentName == <<"S", "e", "a", "r", "c", "h">>
TestplanName == <<"Q", "A">>
ExplicitBuild == <<"4", "2">>
DiscoveredBuild == <<"7">>
BuildCommand == <<"g", "i", "t">>
\* cat example-output.txt: a command that may print any lines
TestCommand == <<"c", "a", "t">>
\* a command that prints one line, which matches output.regex, any number of times
EchoCommand == <<"e", "c", "h", "o">>

\* .*-(?P<build>\d+)
BuildRegexDefault == Pattern(TRUE, <<"build">>, {})
\* a pattern whose build group is optional, such as v(?P<build>\d+)?
BuildRegexOptional == Pattern(TRUE, <<"build">>, {"build"})
\* a pattern that declares no build group, such as .*-(\d+)
BuildRegexNoGroup == Pattern(TRUE, <<"">>, {})

\* \[(?P<result>.*?)\](?:\[(?P<reason>.*?)\])? \| (?P<name>.*?) \| (?P<counts>.*?) \| ElapsedMS: (?P<runlength>\d+)
OutputRegexDefault ==
    Pattern(TRUE, <<"result", "reason", "name", "counts", "runlength">>, {"reason"})
\* a pattern with one unnamed group, such as (\w+) ok
OutputRegexUnnamed == Pattern(TRUE, <<"">>, {})

NameTemplateDefault == <<"S", "e", "a", "r", "c", "h", " ", "{", "n", "a", "m", "e", "}">>
ReasonTemplateDefault ==
    <<"{", "r", "e", "a", "s", "o", "n", "}", ":", " ", "{", "c", "o", "u", "n", "t", "s", "}">>

SlickDefault ==
    [project |-> ProjectName, release |-> ReleaseName, build |-> None,
     build_command |-> Some(BuildCommand), build_regex |-> Some(BuildRegexDefault),
     component |-> Some(ComponentName), testplan |-> Some(TestplanName)]

TestDefault ==
    [command |-> Some(TestCommand), output_regex |-> Some(OutputRegexDefault),
     result |-> None, reason |-> Some(ReasonTemplateDefault),
     name |-> Some(NameTemplateDefault), runlength |-> None]

\* every shape of the [Slick] section the resolver tells apart
SlickConfigs ==
    [project : {ProjectName}, release : {ReleaseName},
     build : {None, Some(ExplicitBuild)},
     build_command : {None, Some(BuildCommand)},
     build_regex : {NoPattern, Some(InvalidRegex), Some(BuildRegexDefault),
                    Some(BuildRegexOptional), Some(BuildRegexNoGroup)},
     component : {None, Some(ComponentName)},
     testplan : {None, Some(TestplanName)}]

\* templates that are not shipped: the status is the first group and an
\* exclamation mark, the duration the first group
ResultTemplate == <<"{", "0", "}", "!">>
RunlengthTemplate == <<"{", "0", "}">>

\* every shape of the [Test] section the classifier tells apart
TestConfigs ==
    [command : {None, Some(TestCommand)},
     output_regex : {NoPattern, Some(InvalidRegex), Some(OutputRegexDefault),
                     Some(OutputRegexUnnamed)},
     result : {None, Some(ResultTemplate)},
     reason : {None, Some(ReasonTemplateDefault)},
     name : {None, Some(NameTemplateDefault)},
     runlength : {None, Some(RunlengthTemplate)}]

\* the templates of the configurations, each read into its parts once
Templates == {NameTemplateDefault, ReasonTemplateDefault, ResultTemplate, RunlengthTemplate}

ParsedTemplates == [t \in Templates |-> ParseTemplate(t)]

Format(t, groups, groupdict) ==
    RenderFrom(ParsedTemplates[t], 1, "", 0, <<>>, groups, groupdict)

(***************************************************************************)
(* The remote service: the project with its releases, builds and            *)
(* components, the test plans, test cases, test runs and results.  Ids      *)
(* below FirstNewId belong to what exists before the run.                   *)
(***************************************************************************)
FirstNewId == 20

Entity(id, name) == [id |-> id, name |-> name]

\* the entities of a scope that bear the name
Named(entities, name) == {e \in entities : e.name = name}

\* a bug that skips the scan
FindNothing(entities, name) == {}

\* the for ... if x.name == name ... break scans of init_release, init_build
\* and init_component: the entities of that name
FindByName(entities, name) == {e \in entities : e.name = name}

\* a remote that answers a lookup from what it had before the run: what the
\* run created is not reflected
findOneStale(entities, name) == {e \in entities : e.name = name /\ e.id < FirstNewId}

\* testplans.findOne(projectid, name), testcases.findOne(projectid, name): the
\* remote's entities of the project that bear exactly the name sent
findOne(entities, name) == {e \in entities : e.name = name}

\* create_reference(): the id and the name of an entity
Ref(e) == [id |-> e.id, name |-> e.name]

NoRef == [id |-> 0, name |-> <<>>]
NoTime == -1

Release(id, name, builds) == [id |-> id, name |-> name, builds |-> builds]

NoRelease == Release(0, <<>>, {})

Project(id, name, releases, components) ==
    [id |-> id, name |-> name, releases |-> releases, components |-> components]

NoProject == Project(0, <<>>, {}, {})

\* another release, with a build named like the discovered one, and another component
OtherRelease == Release(2, <<"5">>, {Entity(3, DiscoveredBuild)})
OtherComponent == Entity(7, <<"U", "I">>)

ProjectStates ==
    {NoProject} \cup
    {Project(1, ProjectName, rs \cup {OtherRelease}, cs \cup {OtherComponent}) :
        rs \in {{}, {Release(4, ReleaseName, {})},
                {Release(4, ReleaseName, {Entity(5, DiscoveredBuild)})},
                {Release(4, ReleaseName, {Entity(6, ExplicitBuild)})}},
        cs \in {{}, {Entity(8, ComponentName)}}}

ExistingTestcase ==
    Entity(10, <<"S", "e", "a", "r", "c", "h", " ", "S", "e", "a", "r", "c", "h", " ",
                 "s", "h", "o", "u", "l", "d", " ", "r", "e", "t", "u", "r", "n", " ",
                 "r", "e", "s", "u", "l", "t", "s">>)

Remote(project, testplans, testcases) ==
    [project |-> project, testplans |-> testplans, testcases |-> testcases,
     testruns |-> <<>>, results |-> <<>>, nextId |-> FirstNewId]

\* a test case whose name is that of the example's second line, t2, but for
\* the letter case
CaseVariantTestcase == Entity(11, <<"T", "2">>)

\* test plans and test cases belong to a project
RemoteStates ==
    {r \in {Remote(p, tp, tc) : p \in ProjectStates, tp \in {{}, {Entity(9, TestplanName)}},
                                tc \in {{}, {ExistingTestcase, CaseVariantTestcase}}} :
        r.project = NoProject => r.testplans = {} /\ r.testcases = {}}

\* one call of the slickqa client, as issued: what it asked, how it ended
\* ("ok", "none" for a lookup that found nothing, "error" for
\* SlickCommunicationError) and the id of the entity it returned
\* a call that carries a test run's state and timestamp, or a result's end
TimedCall(op, kind, name, outcome, id, state, time) ==
    [op |-> op, kind |-> kind, name |-> name, outcome |-> outcome, id |-> id,
     state |-> state, time |-> time]

Call(op, kind, name, outcome, id) == TimedCall(op, kind, name, outcome, id, "", NoTime)

(***************************************************************************)
(* The state.                                                               *)
(***************************************************************************)
VARIABLES
    config,       \* the ConfigParser, sections Slick and Test
    remote,       \* the slick service
    calls,        \* the calls issued to the service, in order
    slick,        \* the fields of the Slick object
    reporter,     \* main's reporter is not None
    tester,       \* the fields of the CommandTester
    pc,           \* where main is
    raised,       \* the exception propagating, "" when none
    handler,      \* the except clause of main that caught it, "" when none
    exitStatus,   \* the process's exit status, -1 while it runs
    clock,        \* the wall clock, in half milliseconds; the process starts
                  \* half a millisecond past a whole one
    begin,        \* run_command's elapsed-time baseline
    spawned,      \* the test command was spawned
    linesRead,    \* how many output lines run_command has read
    lastLine,     \* the line read last
    matches,      \* the groups of every line that matched, in order
    build_number, \* init_build's build_number
    discovery,    \* what init_build's discovery command did
    peer          \* a second invocation of the program against the same service

vars == <<config, remote, calls, slick, reporter, tester, pc, raised, handler, exitStatus,
          clock, begin, spawned, linesRead, lastLine, matches, build_number, discovery,
          peer>>

NoLine == [decodable |-> TRUE, matched |-> FALSE, groups |-> <<>>]

\* init_build did not run its discovery command
NotRun == [ran |-> FALSE, exit |-> 0, matched |-> FALSE, groups |-> <<>>]

NoSlick ==
    [project |-> NoProject, release |-> NoRelease, releaseref |-> NoRef,
     buildref |-> NoRef, component |-> NoRef, componentref |-> NoRef,
     testplan |-> NoRef, testrun |-> NoRef]

NoTester == [command |-> <<>>, output_regex |-> InvalidRegex]

\* no second invocation
NoPeer == [pc |-> "idle", project |-> NoProject]

\* a second invocation that has passed setup
PeerStart == [pc |-> "init_project", project |-> NoProject]

InitOf(slickConfigs, testConfigs, remotes, peers) ==
    /\ peer \in peers
    /\ config \in [Slick : slickConfigs, Test : testConfigs]
    /\ remote \in remotes
    /\ calls = <<>>
    /\ slick = NoSlick
    /\ reporter = FALSE
    /\ tester = NoTester
    /\ pc = "setup"
    /\ raised = ""
    /\ handler = ""
    /\ exitStatus = -1
    /\ clock = 1
    /\ begin = 0
    /\ spawned = FALSE
    /\ linesRead = 0
    /\ lastLine = NoLine
    /\ matches = <<>>
    /\ build_number = None
    /\ discovery = NotRun

\* one invocation of the program
InitWith(slickConfigs, testConfigs, remotes) ==
    InitOf(slickConfigs, testConfigs, remotes, {NoPeer})

\* the [Slick] sections that differ in the build keys only
BuildConfigs ==
    {c \in SlickConfigs : c.component = SlickDefault.component
                          /\ c.testplan = SlickDefault.testplan}

\* the [Slick] sections that have the build keys as shipped
HierarchyConfigs ==
    {c \in SlickConfigs : c.build = SlickDefault.build
                          /\ c.build_command = SlickDefault.build_command
                          /\ c.build_regex = SlickDefault.build_regex}

\* the remote states in which the component, the test plan and the test case
\* all exist or are all missing
UniformRemotes ==
    {r \in RemoteStates :
        /\ (r.testplans = {}) = (r.testcases = {})
        /\ (r.testplans = {}) = (Named(r.project.components, ComponentName) = {})}

\* The resolver's inputs: every shape of the build keys against every state of
\* the releases and builds, and every shape of the other keys against every
\* remote state; the shipped [Test] section with a command that prints
\* matching lines only
Init ==
    \/ InitWith(BuildConfigs, {[TestDefault EXCEPT !.command = Some(EchoCommand)]},
                UniformRemotes)
    \/ InitWith(HierarchyConfigs, {[TestDefault EXCEPT !.command = Some(EchoCommand)]},
                RemoteStates)

(***************************************************************************)
(* Helpers of the actions.                                                  *)
(***************************************************************************)
testerVars == <<tester, begin, spawned, linesRead, lastLine, matches>>
buildVars == <<build_number, discovery>>

\* a bug that logs a failed health check and goes on
ConnectedOrLogged(outcome) == TRUE

\* validate_slick_connection returns: slick.version.findOne() did not raise
Connected(outcome) == outcome = "ok"

\* setup, validate_slick_connection: slick.version.findOne().  It runs before
\* main's try, so a failure ends the process with a traceback; with
\* --configure main saves the configuration and exits with status 0
setup ==
    /\ pc = "setup"
    /\ \E outcome \in {"ok", "error"}, configure \in BOOLEAN :
        /\ calls' = Append(calls, Call("findOne", "version", <<>>, outcome, 0))
        /\ IF ~Connected(outcome)
           THEN /\ ~configure
                /\ pc' = "exit" /\ raised' = "SlickCommunicationError" /\ exitStatus' = 1
           ELSE IF configure
           THEN pc' = "exit" /\ raised' = "SystemExit" /\ exitStatus' = 0
           ELSE pc' = "init_project" /\ UNCHANGED <<raised, exitStatus>>
    /\ UNCHANGED <<peer, handler, config, remote, slick, reporter, clock, testerVars, buildVars>>

\* a bug that drops the check after the lookup
ProjectMissingNever(project) == FALSE

\* init_project's check after the lookup: if self.project is None: raise
ProjectMissing(project) == project = NoProject

\* Slick.init_project: a lookup that raises is logged, and a lookup that
\* yields no project raises SlickCommunicationError either way
init_project ==
    /\ pc = "init_project"
    /\ \E answered \in BOOLEAN :
        LET name == config.Slick.project
            project == IF answered /\ remote.project.id # 0 /\ remote.project.name = name
                       THEN remote.project ELSE NoProject
            outcome == IF ~answered THEN "error"
                       ELSE IF project = NoProject THEN "none" ELSE "ok"
        IN  /\ calls' = Append(calls, Call("findByName", "project", name, outcome, project.id))
            /\ slick' = [slick EXCEPT !.project = project]
            /\ IF ProjectMissing(project)
               THEN raised' = "SlickCommunicationError" /\ pc' = "except"
               ELSE raised' = raised /\ pc' = "init_release"
    /\ UNCHANGED <<peer, handler, config, remote, reporter, exitStatus, clock, testerVars, buildVars>>

\* Slick.init_release: the release of that name among the project's, or a
\* new one, created remotely and appended to the local project
init_release ==
    /\ pc = "init_release"
    /\ LET release_name == config.Slick.release
           found == FindByName(slick.project.releases, release_name)
       IN  IF found # {}
           THEN LET release == CHOOSE r \in found : TRUE
                IN  /\ slick' = [slick EXCEPT !.release = release,
                                              !.releaseref = Ref(release)]
                    /\ pc' = "init_build"
                    /\ UNCHANGED <<remote, calls, raised>>
           ELSE \E outcome \in {"ok", "error"} :
                LET created == Release(remote.nextId, release_name, {})
                IN  /\ calls' = Append(calls, Call("create", "release", release_name, outcome,
                                                   IF outcome = "ok" THEN created.id ELSE 0))
                    /\ IF outcome = "ok"
                       THEN /\ remote' = [remote EXCEPT !.project.releases = @ \cup {created},
                                                        !.nextId = @ + 1]
                            /\ slick' = [slick EXCEPT !.release = created,
                                                      !.releaseref = Ref(created),
                                                      !.project.releases = @ \cup {created}]
                            /\ pc' = "init_build"
                            /\ raised' = raised
                       ELSE /\ raised' = "SlickCommunicationError"
                            /\ pc' = "except"
                            /\ UNCHANGED <<remote, slick>>
    /\ UNCHANGED <<peer, handler, config, reporter, exitStatus, clock, testerVars, buildVars>>

(***************************************************************************)
(* init_build.  The discovery command is run when build.command and         *)
(* build.regex are both set: it exits non-zero (CalledProcessError), or its *)
(* output does not match, or it matches with the groups given.              *)
(***************************************************************************)

\* the groups a match of the pattern can have: a group captures the text, or
\* is None when it is optional
PatternMatches(pattern, text) ==
    {g \in [1..Len(pattern.names) -> {None, Some(text)}] :
        \A i \in 1..Len(pattern.names) :
            g[i] = None => pattern.names[i] \in pattern.optional}

DiscoveryOutcomes(pattern) ==
    {[ran |-> TRUE, exit |-> 1, matched |-> FALSE, groups |-> <<>>],
     [ran |-> TRUE, exit |-> 0, matched |-> FALSE, groups |-> <<>>]} \cup
    {[ran |-> TRUE, exit |-> 0, matched |-> TRUE, groups |-> g] :
        g \in PatternMatches(pattern, DiscoveredBuild)}

\* whether init_build gets as far as running the discovery command
RunsDiscovery(section) ==
    /\ section.build_command.some
    /\ section.build_regex.some
    /\ section.build_regex.val.valid

\* init_build's checks of the settings: a pattern that does not compile, no
\* build and no command, or a build and a command without a pattern
InvalidBuildSettings(section) ==
    LET explicit == section.build
        command == section.build_command
        regex == section.build_regex
    IN  \/ regex.some /\ ~regex.val.valid
        \/ ~explicit.some /\ ~command.some
        \/ explicit.some /\ command.some /\ ~regex.some

\* a bug that keeps a configured build whatever the discovery finds
ConfiguredNumber(section, disc) ==
    LET match_dict == GroupDict(section.build_regex.val, disc.groups)
    IN  IF section.build.some THEN section.build
        ELSE IF /\ section.build_command.some /\ section.build_regex.some
                /\ disc.exit = 0 /\ disc.matched
                /\ "build" \in DOMAIN match_dict
        THEN match_dict["build"] ELSE None

\* a bug that takes the first group of a match that has no 'build' group
FirstGroupNumber(section, disc) ==
    LET match_dict == GroupDict(section.build_regex.val, disc.groups)
        matched == /\ section.build_command.some /\ section.build_regex.some
                   /\ disc.exit = 0 /\ disc.matched
    IN  IF matched /\ "build" \in DOMAIN match_dict THEN match_dict["build"]
        ELSE IF matched /\ Len(disc.groups) > 0 THEN disc.groups[1]
        ELSE section.build

\* build_number after the discovery: the 'build' group of a match when the
\* pattern declares one, else the configured build
DiscoveredNumber(section, disc) ==
    LET match_dict == GroupDict(section.build_regex.val, disc.groups)
        discovered == /\ section.build_command.some /\ section.build_regex.some
                      /\ disc.exit = 0 /\ disc.matched
                      /\ "build" \in DOMAIN match_dict
    IN  IF discovered THEN match_dict["build"] ELSE section.build

\* a bug that leaves out the last check
NoBuildNumberUnchecked(number) == FALSE

\* init_build's last check: if build_number is None: raise
NoBuildNumber(number) == ~number.some

\* the build number init_build settles on, or the error it raises
BuildNumber(section, disc) ==
    IF InvalidBuildSettings(section)
    THEN [err |-> "SlickCommunicationError", val |-> None]
    ELSE LET number == DiscoveredNumber(section, disc)
         IN  IF NoBuildNumber(number)
             THEN [err |-> "SlickCommunicationError", val |-> None]
             ELSE [err |-> "", val |-> number]

init_build ==
    /\ pc = "init_build"
    /\ \E disc \in IF RunsDiscovery(config.Slick)
                   THEN DiscoveryOutcomes(config.Slick.build_regex.val) ELSE {NotRun} :
        LET number == BuildNumber(config.Slick, disc)
            found == FindByName(slick.release.builds, number.val.val)
        IN  /\ discovery' = disc
            /\ build_number' = number.val
            /\ IF number.err # ""
               THEN /\ raised' = number.err
                    /\ pc' = "except"
                    /\ UNCHANGED <<remote, calls, slick>>
               ELSE IF found # {}
               THEN /\ slick' = [slick EXCEPT !.buildref = Ref(CHOOSE b \in found : TRUE)]
                    /\ pc' = "init_component"
                    /\ UNCHANGED <<remote, calls, raised>>
               ELSE \E outcome \in {"ok", "error"} :
                    LET created == Entity(remote.nextId, number.val.val)
                    IN  /\ calls' = Append(calls, Call("create", "build", created.name, outcome,
                                                       IF outcome = "ok" THEN created.id ELSE 0))
                        /\ IF outcome = "ok"
                           THEN /\ remote' =
                                     [remote EXCEPT
                                        !.project.releases =
                                            {IF r.id = slick.release.id
                                             THEN [r EXCEPT !.builds = @ \cup {created}]
                                             ELSE r : r \in @},
                                        !.nextId = @ + 1]
                                /\ slick' = [slick EXCEPT !.buildref = Ref(created)]
                                /\ pc' = "init_component"
                                /\ raised' = raised
                           ELSE /\ raised' = "SlickCommunicationError"
                                /\ pc' = "except"
                                /\ UNCHANGED <<remote, slick>>
    /\ UNCHANGED <<peer, handler, config, reporter, exitStatus, clock, testerVars>>

\* Slick.init_component: optional; found among the project's components or created
init_component ==
    /\ pc = "init_component"
    /\ IF ~config.Slick.component.some
       THEN pc' = "init_testplan" /\ UNCHANGED <<remote, calls, slick, raised>>
       ELSE LET comp_name == config.Slick.component.val
                found == FindByName(slick.project.components, comp_name)
            IN  IF found # {}
                THEN LET comp == CHOOSE c \in found : TRUE
                     IN  /\ slick' = [slick EXCEPT !.component = comp,
                                                   !.componentref = Ref(comp)]
                         /\ pc' = "init_testplan"
                         /\ UNCHANGED <<remote, calls, raised>>
                ELSE \E outcome \in {"ok", "error"} :
                     LET created == Entity(remote.nextId, comp_name)
                     IN  /\ calls' = Append(calls, Call("create", "component", comp_name, outcome,
                                                        IF outcome = "ok" THEN created.id ELSE 0))
                         /\ IF outcome = "ok"
                            THEN /\ remote' = [remote EXCEPT
                                                 !.project.components = @ \cup {created},
                                                 !.nextId = @ + 1]
                                 /\ slick' = [slick EXCEPT !.component = created,
                                                           !.componentref = Ref(created)]
                                 /\ pc' = "init_testplan"
                                 /\ raised' = raised
                            ELSE /\ raised' = "SlickCommunicationError"
                                 /\ pc' = "except"
                                 /\ UNCHANGED <<remote, slick>>
    /\ UNCHANGED <<peer, handler, config, reporter, exitStatus, clock, testerVars, buildVars>>

\* Slick.init_testplan: optional; testplans.findOne by project and name, or created
init_testplan ==
    /\ pc = "init_testplan"
    /\ IF ~config.Slick.testplan.some
       THEN pc' = "init_testrun" /\ UNCHANGED <<remote, calls, slick, raised>>
       ELSE \E lookup \in {"ok", "error"}, outcome \in {"ok", "error"} :
            LET testplan_name == config.Slick.testplan.val
                found == findOne(remote.testplans, testplan_name)
                created == Entity(remote.nextId, testplan_name)
                find == Call("findOne", "testplan", testplan_name,
                             IF lookup = "error" THEN "error"
                             ELSE IF found = {} THEN "none" ELSE "ok",
                             IF lookup = "ok" /\ found # {}
                             THEN (CHOOSE t \in found : TRUE).id ELSE 0)
            IN  IF lookup = "error"
                THEN /\ outcome = "ok"
                     /\ calls' = Append(calls, find)
                     /\ raised' = "SlickCommunicationError"
                     /\ pc' = "except"
                     /\ UNCHANGED <<remote, slick>>
                ELSE IF found # {}
                THEN /\ outcome = "ok"
                     /\ calls' = Append(calls, find)
                     /\ slick' = [slick EXCEPT !.testplan = CHOOSE t \in found : TRUE]
                     /\ pc' = "init_testrun"
                     /\ UNCHANGED <<remote, raised>>
                ELSE /\ calls' = calls \o
                                 <<find, Call("create", "testplan", testplan_name, outcome,
                                              IF outcome = "ok" THEN created.id ELSE 0)>>
                     /\ IF outcome = "ok"
                        THEN /\ remote' = [remote EXCEPT !.testplans = @ \cup {created},
                                                         !.nextId = @ + 1]
                             /\ slick' = [slick EXCEPT !.testplan = created]
                             /\ pc' = "init_testrun"
                             /\ raised' = raised
                        ELSE /\ raised' = "SlickCommunicationError"
                             /\ pc' = "except"
                             /\ UNCHANGED <<remote, slick>>
    /\ UNCHANGED <<peer, handler, config, reporter, exitStatus, clock, testerVars, buildVars>>

\* the Testrun init_testrun builds at time now (half milliseconds)
NewTestrun(id, sl, now) ==
    [id |-> id, testplanid |-> sl.testplan.id, project |-> Ref(sl.project),
     release |-> sl.releaseref, build |-> sl.buildref,
     state |-> "RUNNING", runStarted |-> NowMs(now), runFinished |-> NoTime]

\* a bug that sends the end in seconds: the * 1000 is left out
FinishedTestrunSeconds(id, now) ==
    [id |-> id, runFinished |-> NowMs(now) \div 1000, state |-> "FINISHED"]

\* the Testrun finish_testrun sends at time now: the id, the end, the state
FinishedTestrun(id, now) ==
    [id |-> id, runFinished |-> NowMs(now), state |-> "FINISHED"]

\* a bug that stores the Testrun sent in place of the stored one: the fields
\* finish_testrun does not set are lost
UpdateTestrunReplaces(testruns, sent) ==
    [i \in DOMAIN testruns |->
        IF testruns[i].id = sent.id
        THEN [id |-> sent.id, testplanid |-> 0, project |-> NoRef, release |-> NoRef,
              build |-> NoRef, state |-> sent.state, runStarted |-> NoTime,
              runFinished |-> sent.runFinished]
        ELSE testruns[i]]

\* testruns(testrun).update(): the fields sent replace those of the stored test run
UpdateTestrun(testruns, sent) ==
    [i \in DOMAIN testruns |->
        IF testruns[i].id = sent.id
        THEN [testruns[i] EXCEPT !.runFinished = sent.runFinished, !.state = sent.state]
        ELSE testruns[i]]

\* Slick.init_testrun, the last step of Slick.__init__: when the create
\* returns, main's reporter is set
init_testrun ==
    /\ pc = "init_testrun"
    /\ \E d \in 0..MaxStep, outcome \in {"ok", "error"} :
        LET testrun == NewTestrun(remote.nextId, slick, clock + d)
        IN  /\ clock + d <= MaxClock
            /\ clock' = clock + d
            /\ calls' = Append(calls, TimedCall("create", "testrun", <<>>, outcome,
                                                IF outcome = "ok" THEN testrun.id ELSE 0,
                                                testrun.state, testrun.runStarted))
            /\ IF outcome = "ok"
               THEN /\ remote' = [remote EXCEPT !.testruns = Append(@, testrun),
                                                !.nextId = @ + 1]
                    /\ slick' = [slick EXCEPT !.testrun = Entity(testrun.id, <<>>)]
                    /\ reporter' = TRUE
                    /\ pc' = "tester_init"
                    /\ raised' = raised
               ELSE /\ raised' = "SlickCommunicationError"
                    /\ pc' = "except"
                    /\ UNCHANGED <<remote, slick, reporter>>
    /\ UNCHANGED <<peer, handler, config, exitStatus, testerVars, buildVars>>

(***************************************************************************)
(* The tester.                                                              *)
(***************************************************************************)
\* what raise ConfigurationError(message) raises: the class's __init__ calls
\* super(ConfigurationError).__init__(message), the initializer of the unbound
\* super object itself, which rejects a str as its type: TypeError
ConfigurationError(args) ==
    IF Len(args) > 0 THEN "TypeError" ELSE "ConfigurationError"

\* a bug that skips the check of the required keys
nothing_required(test) == TRUE

\* CommandTester.__init__'s check: both 'command' and 'output.regex' are in [Test]
all_accounted_for(test) == test.command.some /\ test.output_regex.some

\* CommandTester.__init__: the required keys, then re.compile of output.regex
CommandTester_init ==
    /\ pc = "tester_init"
    /\ LET test == config.Test
       IN  IF ~all_accounted_for(test)
           THEN /\ raised' = ConfigurationError(<<"Several required configurations were missing.">>)
                /\ pc' = "except"
                /\ UNCHANGED tester
           ELSE IF ~test.output_regex.val.valid
           THEN /\ raised' = "re.error"
                /\ pc' = "except"
                /\ tester' = [tester EXCEPT !.command = test.command.val]
           ELSE /\ tester' = [command |-> test.command.val,
                              output_regex |-> test.output_regex.val]
                /\ pc' = "run_command"
                /\ raised' = raised
    /\ UNCHANGED <<peer, handler, config, remote, calls, slick, reporter, exitStatus, clock,
                   begin, spawned, linesRead, lastLine, matches, buildVars>>

BROKEN_TEST == <<"B", "R", "O", "K", "E", "N", "_", "T", "E", "S", "T">>

Value(v) == [ok |-> TRUE, err |-> "", val |-> v]

Rendered(r) == [ok |-> r.ok, err |-> r.err, val |-> Some(r.val)]

\* a bug that looks at the result group before the result template
ClassifyResultGroupFirst(test, groups, groupdict) ==
    IF "result" \in DOMAIN groupdict THEN Value(groupdict["result"])
    ELSE IF test.result.some THEN Rendered(Format(test.result.val, groups, groupdict))
    ELSE Value(Some(BROKEN_TEST))

\* the status: the result template, else the result group, else BROKEN_TEST
ClassifyResult(test, groups, groupdict) ==
    IF test.result.some THEN Rendered(Format(test.result.val, groups, groupdict))
    ELSE IF "result" \in DOMAIN groupdict THEN Value(groupdict["result"])
    ELSE Value(Some(BROKEN_TEST))

\* a bug that embeds the 'result' group, not the status resolved from the
\* status template, in the default reason
DefaultReasonOfGroup(groupdict, result) ==
    IF "reason" \in DOMAIN groupdict /\ ~groupdict["reason"].some
    THEN [groupdict EXCEPT !["reason"] =
             Some(<<"O", "u", "t", "p", "u", "t", " ", "I", "n", "d", "i", "c", "a", "t",
                    "e", "d", " ">> \o PyStr(groupdict["result"]))]
    ELSE groupdict

\* a bug that leaves a reason group that is None for the templates to render
DefaultReasonLeftOut(groupdict, result) == groupdict

\* a reason group that is None becomes "Output Indicated <status>" in groupdict
DefaultReason(groupdict, result) ==
    IF "reason" \in DOMAIN groupdict /\ ~groupdict["reason"].some
    THEN [groupdict EXCEPT !["reason"] =
             Some(<<"O", "u", "t", "p", "u", "t", " ", "I", "n", "d", "i", "c", "a", "t",
                    "e", "d", " ">> \o PyStr(result))]
    ELSE groupdict

\* the reason: the reason template, else the reason group, else ""
ClassifyReason(test, groups, groupdict) ==
    IF test.reason.some THEN Rendered(Format(test.reason.val, groups, groupdict))
    ELSE IF "reason" \in DOMAIN groupdict THEN Value(groupdict["reason"])
    ELSE Value(Some(<<>>))

\* the name: the name template, else the name group, else "Command <command>"
ClassifyName(test, command, groups, groupdict) ==
    IF test.name.some THEN Rendered(Format(test.name.val, groups, groupdict))
    ELSE IF "name" \in DOMAIN groupdict THEN Value(groupdict["name"])
    ELSE Value(Some(<<"C", "o", "m", "m", "a", "n", "d", " ">> \o command))

\* a bug that gives a duration of 0 where none is parsed
ClassifyRunlengthOrZero(test, groups, groupdict, elapsed) ==
    IF test.runlength.some
    THEN LET r == Format(test.runlength.val, groups, groupdict)
         IN  IF r.ok /\ PyInt(Some(r.val)).ok THEN PyInt(Some(r.val)).val ELSE 0
    ELSE IF "runlength" \in DOMAIN groupdict
    THEN IF PyInt(groupdict["runlength"]).ok THEN PyInt(groupdict["runlength"]).val
         ELSE 0
    ELSE 0

\* the duration: int() of the runlength template or group when that works,
\* else the time since the baseline
ClassifyRunlength(test, groups, groupdict, elapsed) ==
    IF test.runlength.some
    THEN LET r == Format(test.runlength.val, groups, groupdict)
         IN  IF r.ok /\ PyInt(Some(r.val)).ok THEN PyInt(Some(r.val)).val ELSE elapsed
    ELSE IF "runlength" \in DOMAIN groupdict
    THEN IF PyInt(groupdict["runlength"]).ok THEN PyInt(groupdict["runlength"]).val
         ELSE elapsed
    ELSE elapsed

\* the body of run_command's loop for a matching line, up to file_result
Classify(test, command, groups, groupdict0, elapsed) ==
    LET result == ClassifyResult(test, groups, groupdict0)
        groupdict == DefaultReason(groupdict0, result.val)
        reason == ClassifyReason(test, groups, groupdict)
        name == ClassifyName(test, command, groups, groupdict)
    IN  IF ~result.ok THEN [ok |-> FALSE, err |-> result.err]
        ELSE IF ~reason.ok THEN [ok |-> FALSE, err |-> reason.err]
        ELSE IF ~name.ok THEN [ok |-> FALSE, err |-> name.err]
        ELSE [ok |-> TRUE, err |-> "", status |-> result.val, reason |-> reason.val,
              name |-> name.val,
              runlength |-> ClassifyRunlength(test, groups, groupdict, elapsed)]

\* a bug that leaves the component out of the result
NewResultNoComponent(id, sl, test, status, reason, runlength, now) ==
    [id |-> id, testrun |-> Ref(sl.testrun), testcase |-> Ref(test),
     project |-> Ref(sl.project), release |-> sl.releaseref, build |-> sl.buildref,
     component |-> NoRef,
     reason |-> reason, runlength |-> runlength, end |-> NowMs(now),
     started |-> NowMs(now) - runlength, status |-> status]

\* a bug that files the release reference as the result's build
NewResultOfRelease(id, sl, test, status, reason, runlength, now) ==
    [id |-> id, testrun |-> Ref(sl.testrun), testcase |-> Ref(test),
     project |-> Ref(sl.project), release |-> sl.releaseref, build |-> sl.releaseref,
     component |-> IF sl.component # NoRef THEN sl.componentref ELSE NoRef,
     reason |-> reason, runlength |-> runlength, end |-> NowMs(now),
     started |-> NowMs(now) - runlength, status |-> status]

\* the Result file_result builds at time now for the test case
NewResult(id, sl, test, status, reason, runlength, now) ==
    [id |-> id, testrun |-> Ref(sl.testrun), testcase |-> Ref(test),
     project |-> Ref(sl.project), release |-> sl.releaseref, build |-> sl.buildref,
     component |-> IF sl.component # NoRef THEN sl.componentref ELSE NoRef,
     reason |-> reason, runlength |-> runlength, end |-> NowMs(now),
     started |-> NowMs(now) - runlength, status |-> status]

\* a bug that files the result in the branch that creates the test case only
FilesResultIfCreated(found) == found = {}

\* file_result builds and creates the result after its if/else, whether the
\* test case was found or created
FilesResult(found) == TRUE

\* Slick.file_result: testcases.findOne, a create of the test case when there
\* is none, then the create of the result.  fails names the call that raises
\* SlickCommunicationError, "" when none does
file_result(rem, log, sl, name, status, reason, runlength, now, fails) ==
    LET found == findOne(rem.testcases, name)
        find == Call("findOne", "testcase", name,
                     IF fails = "find" THEN "error"
                     ELSE IF found = {} THEN "none" ELSE "ok",
                     IF fails # "find" /\ found # {} THEN (CHOOSE t \in found : TRUE).id ELSE 0)
        created == Entity(rem.nextId, name)
        make == Call("create", "testcase", name,
                     IF fails = "testcase" THEN "error" ELSE "ok",
                     IF fails = "testcase" THEN 0 ELSE created.id)
        rem1 == IF found = {}
                THEN [rem EXCEPT !.testcases = @ \cup {created}, !.nextId = @ + 1]
                ELSE rem
        test == IF found = {} THEN created ELSE CHOOSE t \in found : TRUE
        result == NewResult(rem1.nextId, sl, test, status, reason, runlength, now)
        file == TimedCall("create", "result", name,
                          IF fails = "result" THEN "error" ELSE "ok",
                          IF fails = "result" THEN 0 ELSE result.id, "", result.end)
        log1 == IF found = {} THEN log \o <<find, make>> ELSE Append(log, find)
    IN  IF fails = "find"
        THEN [remote |-> rem, calls |-> Append(log, find), raised |-> "SlickCommunicationError"]
        ELSE IF fails = "testcase" /\ found = {}
        THEN [remote |-> rem, calls |-> log1, raised |-> "SlickCommunicationError"]
        ELSE IF ~FilesResult(found)
        THEN [remote |-> rem1, calls |-> log1, raised |-> ""]
        ELSE IF fails = "result"
        THEN [remote |-> rem1, calls |-> Append(log1, file),
              raised |-> "SlickCommunicationError"]
        ELSE [remote |-> [rem1 EXCEPT !.results = Append(@, result), !.nextId = @ + 1],
              calls |-> Append(log1, file), raised |-> ""]

(***************************************************************************)
(* The output of the tested command, line by line: a line is not UTF-8, or  *)
(* does not match output.regex, or matches with some groups.                *)
(***************************************************************************)
Undecodable == [decodable |-> FALSE, matched |-> FALSE, groups |-> <<>>]

\* [PASS] | Search should return results | 3 items | ElapsedMS: 450
PassMatch ==
    <<Some(<<"P", "A", "S", "S">>), None,
      Some(<<"S", "e", "a", "r", "c", "h", " ", "s", "h", "o", "u", "l", "d", " ",
             "r", "e", "t", "u", "r", "n", " ", "r", "e", "s", "u", "l", "t", "s">>),
      Some(<<"3", " ", "i", "t", "e", "m", "s">>), Some(<<"4", "5", "0">>)>>

\* [FAIL][boom] | t2 | 0 items | ElapsedMS: 7
FailMatch ==
    <<Some(<<"F", "A", "I", "L">>), Some(<<"b", "o", "o", "m">>), Some(<<"t", "2">>),
      Some(<<"0", " ", "i", "t", "e", "m", "s">>), Some(<<"7">>)>>

\* [PASS][] | t3 | 1 items | ElapsedMS: 9
EmptyReasonMatch ==
    <<Some(<<"P", "A", "S", "S">>), Some(<<>>), Some(<<"t", "3">>),
      Some(<<"1", " ", "i", "t", "e", "m", "s">>), Some(<<"9">>)>>

MatchesOf(pattern) ==
    IF pattern = OutputRegexDefault THEN {PassMatch, FailMatch, EmptyReasonMatch}
    ELSE PatternMatches(pattern, <<"1", "2">>)

Matching(groups) == [decodable |-> TRUE, matched |-> TRUE, groups |-> groups]

\* the lines the command can print, as output.regex sees them
OutputLines(command, pattern) ==
    IF command = EchoCommand
    THEN {Matching(IF pattern = OutputRegexDefault THEN PassMatch
                   ELSE CHOOSE g \in MatchesOf(pattern) : TRUE)}
    ELSE {NoLine, Undecodable} \cup {Matching(g) : g \in MatchesOf(pattern)}

\* run_command up to its loop: the command is spawned and the baseline taken
run_command ==
    /\ pc = "run_command"
    /\ spawned' = TRUE
    /\ begin' = NowMs(clock)
    /\ pc' = "loop"
    /\ UNCHANGED <<peer, handler, config, remote, calls, slick, reporter, tester, raised, exitStatus,
                   clock, linesRead, lastLine, matches, buildVars>>

\* a bug that takes the baseline on every line
BaselineEveryLine(matched, baseline, end) == end

\* the baseline after a line: begin = end is inside if match is not None
Baseline(matched, baseline, end) == IF matched THEN end ELSE baseline

\* one turn of run_command's loop: the line is read once d has passed,
\* decoded and matched; a match is classified and filed
run_command_line ==
    /\ pc = "loop"
    /\ linesRead < MaxLines
    /\ \E line \in OutputLines(tester.command, tester.output_regex), d \in 0..MaxStep :
        LET end == NowMs(clock + d)
            c == Classify(config.Test, tester.command, line.groups,
                          GroupDict(tester.output_regex, line.groups), end - begin)
        IN  /\ clock + d <= MaxClock
            /\ clock' = clock + d
            /\ linesRead' = linesRead + 1
            /\ lastLine' = line
            /\ IF ~line.decodable
               THEN /\ raised' = "UnicodeDecodeError"
                    /\ pc' = "except"
                    /\ UNCHANGED <<remote, calls, begin, matches>>
               ELSE IF ~line.matched
               THEN /\ begin' = Baseline(FALSE, begin, end)
                    /\ UNCHANGED <<remote, calls, matches, raised, pc>>
               ELSE /\ matches' = Append(matches, line.groups)
                    /\ IF ~c.ok
                       THEN /\ raised' = c.err
                            /\ pc' = "except"
                            /\ UNCHANGED <<remote, calls, begin>>
                       ELSE \E fails \in {"", "find", "testcase", "result"} :
                            LET filed == file_result(remote, calls, slick, c.name.val,
                                                     c.status, c.reason, c.runlength,
                                                     clock + d, fails)
                            IN  /\ fails = "testcase" =>
                                        \A t \in remote.testcases : t.name # c.name.val
                                /\ begin' = Baseline(TRUE, begin, end)
                                /\ remote' = filed.remote
                                /\ calls' = filed.calls
                                /\ raised' = filed.raised
                                /\ pc' = IF filed.raised = "" THEN "loop" ELSE "except"
    /\ UNCHANGED <<peer, handler, config, slick, reporter, tester, exitStatus, spawned, buildVars>>

\* the output ends: run_command returns
run_command_end ==
    /\ pc = "loop"
    /\ pc' = "finally"
    /\ UNCHANGED <<peer, handler, config, remote, calls, slick, reporter, raised, exitStatus, clock,
                   testerVars, buildVars>>

(***************************************************************************)
(* main's try statement.                                                    *)
(***************************************************************************)
\* a bug that leaves sys.exit out of the except clauses: the process goes on
\* to its normal end
no_sys_exit(error) == -1

\* the status the process ends with once an exception has left the try block:
\* sys.exit(1) in each except clause, and 1 for an exception none handles
sys_exit(error) == 1

\* the except clauses: SlickCommunicationError and ConfigurationError log and
\* sys.exit(1); the re.error clause evaluates err[0], which raises TypeError;
\* anything else propagates.  The finally clause runs next in every case
main_except ==
    /\ pc = "except"
    /\ handler' = IF raised \in {"SlickCommunicationError", "ConfigurationError", "re.error"}
                  THEN raised ELSE "none"
    /\ raised' = IF raised \in {"SlickCommunicationError", "ConfigurationError"}
                 THEN "SystemExit"
                 ELSE IF raised = "re.error" THEN "TypeError" ELSE raised
    /\ exitStatus' = sys_exit(raised)
    /\ pc' = "finally"
    /\ UNCHANGED <<peer, config, remote, calls, slick, reporter, clock, testerVars,
                   build_number, discovery>>

\* a bug that finishes the test run at the end of the try block, not in finally
FinishesOnSuccess == reporter /\ raised = ""

\* the finally clause's test: if reporter is not None
Finishes == reporter

\* the finally clause: reporter.finish_testrun() when reporter is not None
main_finally ==
    /\ pc = "finally"
    /\ IF Finishes
       THEN \E outcome \in {"ok", "error"} :
            LET sent == FinishedTestrun(slick.testrun.id, clock)
            IN  /\ clock' = clock
                /\ calls' = Append(calls, TimedCall("update", "testrun", <<>>, outcome,
                                                    sent.id, sent.state, sent.runFinished))
                /\ IF outcome = "ok"
                   THEN /\ remote' = [remote EXCEPT !.testruns = UpdateTestrun(@, sent)]
                        /\ raised' = raised
                        /\ exitStatus' = IF exitStatus = -1 THEN 0 ELSE exitStatus
                   ELSE /\ raised' = "SlickCommunicationError"
                        /\ exitStatus' = 1
                        /\ UNCHANGED remote
       ELSE /\ exitStatus' = IF exitStatus = -1 THEN 0 ELSE exitStatus
            /\ UNCHANGED <<remote, calls, raised, clock>>
    /\ pc' = "exit"
    /\ UNCHANGED <<peer, handler, config, slick, reporter, testerVars, buildVars>>

Next ==
    \/ setup
    \/ init_project
    \/ init_release
    \/ init_build
    \/ init_component
    \/ init_testplan
    \/ init_testrun
    \/ CommandTester_init
    \/ run_command
    \/ run_command_line
    \/ run_command_end
    \/ main_except
    \/ main_finally

Spec == Init /\ [][Next]_vars

\* the shipped [Slick] section against a project that has the release, the
\* build, the component, the test plan and the example's test case; every
\* [Test] section
InitClassifier ==
    InitWith({SlickDefault}, TestConfigs,
             {r \in RemoteStates :
                /\ Named(r.project.components, ComponentName) # {}
                /\ r.testplans # {}
                /\ r.testcases # {}
                /\ \E rel \in Named(r.project.releases, ReleaseName) :
                        Named(rel.builds, DiscoveredBuild) # {}})

SpecClassifier == InitClassifier /\ [][Next]_vars

(***************************************************************************)
(* Two invocations against one service.  The second runs the same program   *)
(* with the same configuration; of its steps, those that read or write the  *)
(* project's releases and the test cases are modelled, each remote call a    *)
(* step of its own, so that the calls of the two invocations interleave.    *)
(***************************************************************************)
mainVars == <<config, calls, slick, reporter, tester, pc, raised, handler, exitStatus,
              clock, begin, spawned, linesRead, lastLine, matches, build_number, discovery>>

\* the test case name the second invocation files the command's line under
PeerName ==
    Classify(config.Test, config.Test.command.val, PassMatch,
             GroupDict(config.Test.output_regex.val, PassMatch), 0).name.val

\* Slick.init_project in the second invocation: projects.findByName, whose
\* answer, with the releases it lists, is kept as self.project
peer_init_project ==
    /\ peer.pc = "init_project"
    /\ \E answered \in BOOLEAN :
        LET name == config.Slick.project
            project == IF answered /\ remote.project.id # 0 /\ remote.project.name = name
                       THEN remote.project ELSE NoProject
        IN  peer' = IF ProjectMissing(project)
                    THEN [pc |-> "done", project |-> NoProject]
                    ELSE [pc |-> "init_release", project |-> project]
    /\ UNCHANGED <<remote, mainVars>>

\* Slick.init_release in the second invocation: the scan of self.project.releases
\* as init_project received them, and the create when the scan finds none
peer_init_release ==
    /\ peer.pc = "init_release"
    /\ LET release_name == config.Slick.release
           found == FindByName(peer.project.releases, release_name)
       IN  IF found # {}
           THEN /\ peer' = [peer EXCEPT !.pc = "file_result"]
                /\ UNCHANGED remote
           ELSE \E outcome \in {"ok", "error"} :
                LET created == Release(remote.nextId, release_name, {})
                IN  IF outcome = "ok"
                    THEN /\ remote' = [remote EXCEPT !.project.releases = @ \cup {created},
                                                     !.nextId = @ + 1]
                         /\ peer' = [peer EXCEPT !.pc = "file_result",
                                                 !.project.releases = @ \cup {created}]
                    ELSE /\ peer' = [peer EXCEPT !.pc = "done"]
                         /\ UNCHANGED remote
    /\ UNCHANGED mainVars

\* Slick.file_result in the second invocation, its first call: testcases.findOne
peer_find_testcase ==
    /\ peer.pc = "file_result"
    /\ \E answered \in BOOLEAN :
        LET found == findOne(remote.testcases, PeerName)
        IN  peer' = [peer EXCEPT !.pc = IF ~answered THEN "done"
                                        ELSE IF found = {} THEN "create_testcase"
                                        ELSE "done"]
    /\ UNCHANGED <<remote, mainVars>>

\* Slick.file_result in the second invocation, its second call: the create of
\* the test case findOne did not find
peer_create_testcase ==
    /\ peer.pc = "create_testcase"
    /\ \E outcome \in {"ok", "error"} :
        LET created == Entity(remote.nextId, PeerName)
        IN  /\ remote' = IF outcome = "ok"
                         THEN [remote EXCEPT !.testcases = @ \cup {created},
                                             !.nextId = @ + 1]
                         ELSE remote
            /\ peer' = [peer EXCEPT !.pc = "done"]
    /\ UNCHANGED mainVars

NextConcurrent ==
    \/ Next
    \/ peer_init_project
    \/ peer_init_release
    \/ peer_find_testcase
    \/ peer_create_testcase

\* the shipped configuration, with a command that prints the example's first
\* line, against a project whose release 6 and whose test case are there or
\* are missing
InitConcurrent ==
    InitOf({SlickDefault}, {[TestDefault EXCEPT !.command = Some(EchoCommand)]},
           {r \in RemoteStates :
                /\ r.project # NoProject
                /\ Named(r.project.components, ComponentName) # {}
                /\ r.testplans # {}},
           {PeerStart})

SpecConcurrent == InitConcurrent /\ [][NextConcurrent]_vars


(***************************************************************************)
(* What the calls log and the remote state say about a run.                 *)
(***************************************************************************)
CallsOf(op, kind) == {i \in DOMAIN calls : calls[i].op = op /\ calls[i].kind = kind}

Creates(kind, name) == {i \in CallsOf("create", kind) : calls[i].name = name}

\* the entities of that name that were there before the run
Existing(entities, name) == {e \in Named(entities, name) : e.id < FirstNewId}

\* the test run was created: Slick's constructor returned
TestrunCreated == \E i \in CallsOf("create", "testrun") : calls[i].outcome = "ok"

(***************************************************************************)
(* C1  Once the test run is created it is finalized exactly once on every   *)
(* way out.                                                                 *)
(***************************************************************************)
\* C1: at all times there is at most one update of the test run, it comes
\* after the test run's creation, names that test run and carries the state
\* FINISHED with an end timestamp; and when the process has ended after the
\* test run was created (output exhausted, a rendering error, a remote error,
\* an undecodable line), there is exactly one and it is the last remote call.
C1_FinalizedExactlyOnce ==
    LET updates == CallsOf("update", "testrun")
    IN  /\ Cardinality(updates) <= 1
        /\ \A i \in updates :
                /\ \E j \in CallsOf("create", "testrun") :
                        j < i /\ calls[j].outcome = "ok" /\ calls[j].id = calls[i].id
                /\ calls[i].state = "FINISHED"
                /\ calls[i].time # NoTime
        /\ (pc = "exit" /\ TestrunCreated) =>
                /\ Cardinality(updates) = 1
                /\ Len(calls) \in updates

\* C1 witness: the process has ended on an exception raised while the command's
\* output was processed, and the test run was finalized
C1_Witness ==
    /\ pc = "exit"
    /\ TestrunCreated
    /\ handler # ""
    /\ linesRead > 0
    /\ CallsOf("update", "testrun") # {}

(***************************************************************************)
(* C2  The test run's state and timestamps.                                 *)
(***************************************************************************)
\* C2: a test run is created in state RUNNING, its state is RUNNING or
\* FINISHED, a FINISHED one has an end timestamp at or after its start, and
\* every finalizing update sent carries an end timestamp at or after the start
\* of the run it names.
C2_FinishedAfterStarted ==
    /\ \A i \in DOMAIN remote.testruns :
            LET run == remote.testruns[i]
            IN  /\ run.state \in {"RUNNING", "FINISHED"}
                /\ run.state = "RUNNING" => run.runFinished = NoTime
                /\ run.state = "FINISHED" =>
                        run.runFinished # NoTime /\ run.runFinished >= run.runStarted
    /\ \A i \in CallsOf("create", "testrun") : calls[i].state = "RUNNING"
    /\ \A i \in CallsOf("update", "testrun") :
            \A j \in DOMAIN remote.testruns :
                remote.testruns[j].id = calls[i].id =>
                    calls[i].time >= remote.testruns[j].runStarted

\* C2, the transitions: a test run's state is never moved back from FINISHED,
\* and its start timestamp is never changed.
C2_OnlyForward ==
    [][\A i \in DOMAIN remote.testruns :
            /\ i \in DOMAIN remote'.testruns
            /\ remote'.testruns[i].runStarted = remote.testruns[i].runStarted
            /\ remote.testruns[i].state = "FINISHED" =>
                    remote'.testruns[i].state = "FINISHED"]_vars

\* C2: the test run is created RUNNING, is only ever moved to FINISHED, and
\* its end timestamp is at or after its start: the states and the transitions
\* above together.
C2_Lifecycle == []C2_FinishedAfterStarted /\ C2_OnlyForward

\* C2 witness: a test run started after time zero is FINISHED
C2_Witness ==
    \E i \in DOMAIN remote.testruns :
        /\ remote.testruns[i].state = "FINISHED"
        /\ remote.testruns[i].runStarted > 0

(***************************************************************************)
(* C3  Find-or-create does not create what exists.                          *)
(***************************************************************************)
\* the releases of the configured name that were there before the run
ExistingReleases == Existing(remote.project.releases, config.Slick.release)

\* the builds named by the resolved build number under such a release
ExistingBuilds ==
    IF build_number.some
    THEN UNION {Existing(r.builds, build_number.val) : r \in ExistingReleases}
    ELSE {}

ExistingComponents ==
    IF config.Slick.component.some
    THEN Existing(remote.project.components, config.Slick.component.val)
    ELSE {}

ExistingTestplans ==
    IF config.Slick.testplan.some
    THEN Existing(remote.testplans, config.Slick.testplan.val)
    ELSE {}

\* C3: for a release, build, component, test plan or test case whose name
\* exists remotely in the resolved scope, no create call of that kind and name
\* is ever issued, and the resolved reference is the existing entity's.
C3_ExistingIsUsed ==
    /\ \A e \in ExistingReleases :
            /\ Creates("release", e.name) = {}
            /\ (slick.releaseref # NoRef \/ reporter) => slick.releaseref = Ref(e)
    /\ \A e \in ExistingBuilds :
            /\ Creates("build", e.name) = {}
            /\ (slick.buildref # NoRef \/ reporter) => slick.buildref = Ref(e)
    /\ \A e \in ExistingComponents :
            /\ Creates("component", e.name) = {}
            /\ (slick.componentref # NoRef \/ reporter) => slick.componentref = Ref(e)
    /\ \A e \in ExistingTestplans :
            /\ Creates("testplan", e.name) = {}
            /\ (slick.testplan # NoRef \/ reporter) => slick.testplan = Ref(e)
    /\ \A e \in Existing(remote.testcases, ExistingTestcase.name) :
            /\ Creates("testcase", e.name) = {}
            /\ \A i \in DOMAIN remote.results :
                    remote.results[i].testcase.name = e.name =>
                        remote.results[i].testcase = Ref(e)

\* C3 witness: everything configured existed, the run resolved it all and
\* filed a result for the existing test case
C3_Witness ==
    /\ ExistingReleases # {}
    /\ ExistingBuilds # {}
    /\ ExistingComponents # {}
    /\ ExistingTestplans # {}
    /\ reporter
    /\ \E i \in DOMAIN remote.results :
            remote.results[i].testcase = Ref(ExistingTestcase)


(***************************************************************************)
(* C4  Find-or-create creates what is absent, once, and uses what the       *)
(* create returned.                                                         *)
(***************************************************************************)
\* the reference a successful create call returned
Returned(i) == [id |-> calls[i].id, name |-> calls[i].name]

\* the successful create calls of that kind and name
Created(kind, name) == {i \in Creates(kind, name) : calls[i].outcome = "ok"}

\* C4, for one kind whose configured name was absent: exactly one create call
\* was issued, it succeeded, and what it returned is the reference given
UsesCreated(kind, name, used) ==
    /\ Cardinality(Creates(kind, name)) = 1
    /\ \A i \in Creates(kind, name) : calls[i].outcome = "ok" /\ Returned(i) = used

\* C4: at most one create call per release, build, component and test plan is
\* ever issued; and once the context is resolved, for each of them that is
\* configured and whose name was absent remotely, exactly one create call was
\* issued and the reference it returned is the one placed in the test run
\* (release, build, test plan) and in every result (release, build, component).
C4_AbsentIsCreatedOnce ==
    /\ \A kind \in {"release", "build", "component", "testplan"} :
            Cardinality(CallsOf("create", kind)) <= 1
    /\ reporter =>
        LET run == remote.testruns[1]
            section == config.Slick
        IN  /\ ExistingReleases = {} =>
                    /\ UsesCreated("release", section.release, run.release)
                    /\ \A i \in DOMAIN remote.results :
                            UsesCreated("release", section.release, remote.results[i].release)
            /\ ExistingBuilds = {} =>
                    /\ UsesCreated("build", build_number.val, run.build)
                    /\ \A i \in DOMAIN remote.results :
                            UsesCreated("build", build_number.val, remote.results[i].build)
            /\ (section.component.some /\ ExistingComponents = {}) =>
                    /\ UsesCreated("component", section.component.val, slick.componentref)
                    /\ \A i \in DOMAIN remote.results :
                            UsesCreated("component", section.component.val,
                                        remote.results[i].component)
            /\ (section.testplan.some /\ ExistingTestplans = {}) =>
                    /\ Cardinality(Creates("testplan", section.testplan.val)) = 1
                    /\ \A i \in Creates("testplan", section.testplan.val) :
                            calls[i].outcome = "ok" /\ calls[i].id = run.testplanid

\* C4 witness: nothing configured existed, the run created it all and filed
\* a result
C4_Witness ==
    /\ reporter
    /\ ExistingReleases = {}
    /\ ExistingBuilds = {}
    /\ config.Slick.component.some /\ ExistingComponents = {}
    /\ config.Slick.testplan.some /\ ExistingTestplans = {}
    /\ remote.results # <<>>


(***************************************************************************)
(* C5  A line that does not match the output pattern.                       *)
(***************************************************************************)
\* C5: a step of the loop that reads a decodable line the output pattern does
\* not match produces no result, issues no remote call, and leaves the timing
\* baseline as it was.
C5_NonMatchingLineIsSkipped ==
    [][(linesRead' = linesRead + 1 /\ lastLine'.decodable /\ ~lastLine'.matched) =>
            /\ remote' = remote
            /\ calls' = calls
            /\ matches' = matches
            /\ begin' = begin
            /\ pc' = pc /\ raised' = raised]_vars

\* C5 witness: time passed while a line that does not match was read, and the
\* loop goes on
C5_Witness ==
    /\ pc = "loop"
    /\ linesRead > 0
    /\ lastLine.decodable /\ ~lastLine.matched
    /\ NowMs(clock) > begin

(***************************************************************************)
(* C6  One result per matching line, in output order.                       *)
(***************************************************************************)
\* the create calls for results, in the order issued
ResultCreates == SelectSeq(calls, LAMBDA c : c.op = "create" /\ c.kind = "result")

\* the test case name a matching line is filed under
NameOf(groups) ==
    Classify(config.Test, tester.command, groups,
             GroupDict(tester.output_regex, groups), 0).name.val

\* the output was processed to its end and no exception left the try block
ProcessedToEnd == spawned /\ pc \in {"finally", "exit"} /\ handler = ""

\* C6: when the output was processed to its end with no remote or rendering
\* error, the result create calls are as many as the matching lines, each
\* succeeded, and the i-th is for the i-th matching line: it bears that line's
\* test case name and the i-th stored result is the one it created.
C6_OneResultPerMatch ==
    ProcessedToEnd =>
        /\ Len(ResultCreates) = Len(matches)
        /\ Len(remote.results) = Len(matches)
        /\ \A i \in DOMAIN matches :
                /\ ResultCreates[i].outcome = "ok"
                /\ ResultCreates[i].name = NameOf(matches[i])
                /\ remote.results[i].id = ResultCreates[i].id
                /\ remote.results[i].testcase.name = NameOf(matches[i])

\* C6 witness: two matching lines of different names, a line between or around
\* them aside, were filed
C6_Witness ==
    /\ ProcessedToEnd
    /\ Len(matches) = 2
    /\ NameOf(matches[1]) # NameOf(matches[2])


(***************************************************************************)
(* C7  The shipped [Test] section on                                        *)
(*     [PASS] | Search should return results | 3 items | ElapsedMS: 450     *)
(***************************************************************************)
\* the results filed for that line under the shipped [Test] section
FiledForPassLine ==
    IF config.Test = TestDefault
    THEN {remote.results[i] : i \in {j \in DOMAIN remote.results : matches[j] = PassMatch}}
    ELSE {}

\* the fields of the example other than the reason
ExampleFields(r) ==
    /\ r.testcase.name = <<"S", "e", "a", "r", "c", "h", " ", "S", "e", "a", "r", "c",
                           "h", " ", "s", "h", "o", "u", "l", "d", " ", "r", "e", "t",
                           "u", "r", "n", " ", "r", "e", "s", "u", "l", "t", "s">>
    /\ r.status = Some(<<"P", "A", "S", "S">>)
    /\ r.runlength = 450

\* C7 as stated: the line is filed with name 'Search Search should return
\* results', status 'PASS', reason ': 3 items' and duration 450.
C7_AsStated ==
    \A r \in FiledForPassLine :
        /\ ExampleFields(r)
        /\ r.reason = Some(<<":", " ", "3", " ", "i", "t", "e", "m", "s">>)

\* C7: the line is filed with name 'Search Search should return results',
\* status 'PASS', duration 450, and reason 'Output Indicated PASS: 3 items':
\* the reason group took no part in the match, and run_command puts
\* 'Output Indicated PASS' in its place before the reason template is rendered.
C7_ReasonIsOutputIndicated ==
    \A r \in FiledForPassLine :
        /\ ExampleFields(r)
        /\ r.reason = Some(<<"O", "u", "t", "p", "u", "t", " ", "I", "n", "d", "i", "c",
                             "a", "t", "e", "d", " ", "P", "A", "S", "S", ":", " ", "3",
                             " ", "i", "t", "e", "m", "s">>)

\* C7 witness: the line was filed under the shipped [Test] section
C7_Witness == FiledForPassLine # {}


(***************************************************************************)
(* C8  A failed resolution runs nothing.                                    *)
(***************************************************************************)
\* init_build ran and raised
BuildFailed == slick.releaseref # NoRef /\ pc # "init_build" /\ ~build_number.some

\* a step of the context resolution failed: a lookup or create call of the
\* resolver raised, the project was not found, or init_build raised
ResolutionFailed ==
    \/ \E i \in DOMAIN calls :
            /\ calls[i].kind \in {"project", "release", "build", "component",
                                  "testplan", "testrun"}
            /\ calls[i].op # "update"
            /\ \/ calls[i].outcome = "error"
               \/ calls[i].kind = "project" /\ calls[i].outcome = "none"
    \/ BuildFailed

\* C8: once a step of the context resolution has failed, the test command is
\* never spawned, no result create call is issued and no result is stored.
C8_FailedResolutionRunsNothing ==
    ResolutionFailed =>
        /\ ~spawned
        /\ tester = NoTester
        /\ CallsOf("create", "result") = {}
        /\ remote.results = <<>>

\* C8 witness: the process has ended after init_build raised, or after the
\* creation of the test run failed
C8_Witness ==
    /\ pc = "exit"
    /\ \/ BuildFailed
       \/ \E i \in CallsOf("create", "testrun") : calls[i].outcome = "error"

(***************************************************************************)
(* C9  A project lookup that yields no project.                             *)
(***************************************************************************)
\* the outcomes of the project lookups that yielded no project
ProjectLookupFailures ==
    {calls[i].outcome : i \in {j \in CallsOf("findByName", "project") :
                                    calls[j].outcome # "ok"}}

\* C9 as stated: the lookup that yields no project is fatal, no create call is
\* issued, and the error raised is SlickCommunicationError when the lookup
\* failed to communicate and of another kind when the service answered that
\* there is no such project.
C9_AsStated ==
    \A outcome \in ProjectLookupFailures :
        /\ pc \in {"except", "finally", "exit"}
        /\ \A i \in DOMAIN calls : calls[i].op # "create"
        /\ pc = "except" =>
                (raised = "SlickCommunicationError") = (outcome = "error")

\* C9: the lookup that yields no project is fatal: no create call and no call
\* at all follows it, the command is not spawned and the process exits with
\* status 1; and in both cases, the lookup failing to communicate and the
\* service answering that there is no such project, the error raised and
\* handled is the same SlickCommunicationError.
C9_SameErrorKind ==
    \A outcome \in ProjectLookupFailures :
        /\ pc \in {"except", "finally", "exit"}
        /\ \A i \in DOMAIN calls : calls[i].op # "create"
        /\ calls[Len(calls)].kind = "project"
        /\ ~spawned
        /\ pc = "except" => raised = "SlickCommunicationError"
        /\ pc \in {"finally", "exit"} =>
                handler = "SlickCommunicationError" /\ exitStatus = 1

\* C9 witness: the service answered that there is no such project, and the
\* process has ended
C9_Witness == pc = "exit" /\ "none" \in ProjectLookupFailures

(***************************************************************************)
(* C10  Build resolution with an explicit build configured.                 *)
(***************************************************************************)
\* init_build ran
InitBuildRan == slick.releaseref # NoRef /\ pc # "init_build"

\* the discovery command exited zero and its output matched
DiscoveryMatched == discovery.ran /\ discovery.exit = 0 /\ discovery.matched

\* what the pattern's groups captured, by name
DiscoveredGroups == GroupDict(config.Slick.build_regex.val, discovery.groups)

\* the pattern's 'build' group took part in the match
BuildGroupMatched ==
    /\ DiscoveryMatched
    /\ "build" \in DOMAIN DiscoveredGroups
    /\ DiscoveredGroups["build"].some

\* C10 as stated: with an explicit build configured, whatever build.command
\* and build.regex are, init_build resolves a build: the discovered value when
\* the discovery command exits zero and the 'build' group matches, the
\* explicit one otherwise.
C10_AsStated ==
    (InitBuildRan /\ config.Slick.build.some) =>
        build_number = IF BuildGroupMatched THEN DiscoveredGroups["build"]
                       ELSE config.Slick.build

\* init_build raised before it looked for a build
NoBuildResolved ==
    /\ ~build_number.some
    /\ pc \in {"except", "finally", "exit"}
    /\ slick.buildref = NoRef
    /\ CallsOf("create", "build") = {}

\* C10: with an explicit build configured, init_build raises when build.regex
\* does not compile and when build.command is set without build.regex;
\* otherwise, when the discovery command (run when both are set) exits zero
\* and the pattern matches and declares a 'build' group, the build is that
\* group's value, and init_build raises when the group took no part in the
\* match; otherwise (non-zero exit, no match, no 'build' group, no build.command)
\* the build is the explicit one.  A build that is resolved is the one looked
\* up or created.
C10_ExplicitBuild ==
    (InitBuildRan /\ config.Slick.build.some) =>
        LET section == config.Slick
        IN  /\ IF \/ section.build_regex.some /\ ~section.build_regex.val.valid
                  \/ section.build_command.some /\ ~section.build_regex.some
               THEN NoBuildResolved /\ ~discovery.ran
               ELSE IF DiscoveryMatched /\ "build" \in DOMAIN DiscoveredGroups
               THEN /\ build_number = DiscoveredGroups["build"]
                    /\ ~BuildGroupMatched => NoBuildResolved
               ELSE build_number = section.build
            /\ discovery.ran = (section.build_command.some /\ section.build_regex.some
                                /\ section.build_regex.val.valid)
            /\ slick.buildref # NoRef => slick.buildref.name = build_number.val

\* C10 witness: an explicit build is configured, the discovery found another
\* and that one is the build resolved
C10_Witness ==
    /\ InitBuildRan
    /\ config.Slick.build.some
    /\ BuildGroupMatched
    /\ build_number # config.Slick.build
    /\ slick.buildref # NoRef


(***************************************************************************)
(* C11  A discovery pattern without a 'build' group.                        *)
(***************************************************************************)
\* the discovery output matched a pattern that declares no 'build' group
MatchedWithoutBuildGroup == DiscoveryMatched /\ "build" \notin DOMAIN DiscoveredGroups

\* init_build ended by raising an error of that kind, handled as that kind
InitBuildRaised(kind) ==
    /\ NoBuildResolved
    /\ pc = "except" => raised = kind
    /\ pc \in {"finally", "exit"} => handler = kind /\ exitStatus = 1

\* C11 as stated: after such a match the build is the configured one or none,
\* and with none configured init_build raises ConfigurationError before any
\* build is looked up or created.
C11_AsStated ==
    (InitBuildRan /\ MatchedWithoutBuildGroup) =>
        /\ build_number = config.Slick.build
        /\ ~config.Slick.build.some => InitBuildRaised("ConfigurationError")

\* C11: after a match of a pattern that declares no 'build' group the build is
\* the configured one or none, and with none configured init_build raises
\* SlickCommunicationError, the error kind of every failure of the resolution,
\* before any build is looked up or created; the process exits with status 1.
C11_RaisesCommunicationError ==
    (InitBuildRan /\ MatchedWithoutBuildGroup) =>
        /\ build_number = config.Slick.build
        /\ ~config.Slick.build.some => InitBuildRaised("SlickCommunicationError")

\* C11 witness: no build is configured, the discovery matched a pattern
\* without a 'build' group, and the process has ended
C11_Witness ==
    /\ InitBuildRan
    /\ MatchedWithoutBuildGroup
    /\ ~config.Slick.build.some
    /\ pc = "exit"


(***************************************************************************)
(* C12  The health check.                                                   *)
(***************************************************************************)
\* the health checks issued
HealthChecks == CallsOf("findOne", "version")

\* C12: the first remote call of an invocation is the version lookup, it is
\* issued once setup has run and never again, and when it fails it is the only
\* call: no project lookup, no creation of an entity or of a test run and no
\* spawning of the command follows, and the process ends with status 1.
C12_HealthCheckFirstAndOnce ==
    /\ HealthChecks = IF pc = "setup" THEN {} ELSE {1}
    /\ pc = "setup" => calls = <<>>
    /\ \A i \in HealthChecks : calls[i].outcome = "error" =>
            /\ Len(calls) = 1
            /\ pc = "exit" /\ exitStatus = 1
            /\ slick = NoSlick /\ ~reporter
            /\ remote.testruns = <<>> /\ remote.results = <<>>
            /\ ~spawned

\* C12 witness: the health check failed and the process has ended
C12_Witness == pc = "exit" /\ \E i \in HealthChecks : calls[i].outcome = "error"

\* C12 witness of the other case: the health check succeeded and the whole run
\* followed it
C12_WitnessConnected ==
    /\ pc = "exit" /\ spawned
    /\ \E i \in HealthChecks : calls[i].outcome = "ok"


(***************************************************************************)
(* C13  The exit status of a fatal error.                                   *)
(***************************************************************************)
\* the kind of the fatal error the invocation met: the service answered that
\* there is no such project, init_build rejected the build settings, a remote
\* call failed to communicate; or none
FatalKind ==
    IF "none" \in ProjectLookupFailures THEN "project not found"
    ELSE IF BuildFailed THEN "configuration error"
    ELSE IF \E i \in DOMAIN calls : calls[i].outcome = "error" THEN "service unreachable"
    ELSE ""

\* C13 as stated: a fatal error ends the process with a non-zero status, and
\* different kinds end it with different statuses: the status of an
\* unreachable service (sys.exit(1)) is the status of no other kind.
C13_AsStated ==
    (pc = "exit" /\ FatalKind # "") =>
        /\ exitStatus # 0
        /\ (exitStatus = 1) = (FatalKind = "service unreachable")

\* C13: a fatal error of any kind ends the process with the same status 1,
\* and an invocation that meets none ends with status 0.
C13_SameStatus ==
    pc = "exit" => exitStatus = IF FatalKind # "" THEN 1 ELSE 0

\* C13 witness: the process has ended on a configuration error
C13_Witness == pc = "exit" /\ FatalKind = "configuration error"

\* C13 witness of another kind: the process has ended on a project not found
C13_WitnessNotFound == pc = "exit" /\ FatalKind = "project not found"


(***************************************************************************)
(* C14  The component of a result.                                          *)
(***************************************************************************)
\* the component every result filed carries, when one is configured: the
\* reference init_component resolved, of an entity of the configured name
\* that the project holds remotely
CarriesComponent(result) ==
    /\ result.component # NoRef
    /\ result.component = slick.componentref
    /\ result.component.name = config.Slick.component.val
    /\ \E e \in remote.project.components : Ref(e) = result.component

\* C14, the states: with no component configured no component is looked up or
\* created and every result filed carries none; with one configured every
\* result filed carries the reference of the found or created component.
C14_Results ==
    IF config.Slick.component.some
    THEN \A i \in DOMAIN remote.results : CarriesComponent(remote.results[i])
    ELSE /\ \A i \in DOMAIN calls : calls[i].kind # "component"
         /\ slick.componentref = NoRef
         /\ \A i \in DOMAIN remote.results : remote.results[i].component = NoRef

\* C14, the step: with no component configured init_component goes on to the
\* next step of the resolution, without an error.
C14_StepSucceeds ==
    [][(pc = "init_component" /\ ~config.Slick.component.some) =>
            (pc' = "init_testplan" /\ raised' = raised)]_vars

\* C14: with no component configured the resolution still succeeds and the
\* results carry no component; with one configured they carry the found or
\* created component's reference.
C14_ComponentOfResults == []C14_Results /\ C14_StepSucceeds

\* C14 witness: no component is configured, the resolution succeeded and a
\* result was filed
C14_Witness == ~config.Slick.component.some /\ reporter /\ remote.results # <<>>

\* C14 witness of the other case: a component that did not exist is configured
\* and a result was filed
C14_WitnessCreated ==
    /\ config.Slick.component.some
    /\ ExistingComponents = {}
    /\ remote.results # <<>>


(***************************************************************************)
(* C15  The order of the resolution's remote calls.                         *)
(***************************************************************************)
\* the steps of Slick's constructor, in the order it runs them
ResolutionOrder == <<"project", "release", "build", "component", "testplan", "testrun">>

\* the place of a call's step in that order
StepOf(i) == CHOOSE k \in DOMAIN ResolutionOrder : ResolutionOrder[k] = calls[i].kind

\* the remote calls of the resolution
ResolutionCalls ==
    {i \in DOMAIN calls : /\ calls[i].op # "update"
                          /\ \E k \in DOMAIN ResolutionOrder :
                                ResolutionOrder[k] = calls[i].kind}

\* the call ended its step in failure
FailedCall(i) ==
    \/ calls[i].outcome = "error"
    \/ calls[i].kind = "project" /\ calls[i].outcome = "none"

\* C15: the resolution's remote calls are issued in the order project,
\* release, build, component, test plan, test run; no call of the resolution
\* follows one that failed, and none of a later step follows a failure of
\* init_build; the creation of the test run is issued at most once, as the
\* last call of the resolution, with every earlier step resolved, and every
\* call for a test case or a result comes after it.
C15_ResolutionInOrder ==
    /\ \A i, j \in ResolutionCalls :
            i < j => StepOf(i) <= StepOf(j) /\ ~FailedCall(i)
    /\ BuildFailed => \A i \in ResolutionCalls : StepOf(i) <= 2
    /\ \A i \in CallsOf("create", "testrun") :
            /\ \A j \in ResolutionCalls : j <= i
            /\ slick.project # NoProject
            /\ slick.releaseref # NoRef
            /\ slick.buildref # NoRef
            /\ config.Slick.component.some => slick.componentref # NoRef
            /\ config.Slick.testplan.some => slick.testplan # NoRef
    /\ \A j \in DOMAIN calls :
            calls[j].kind \in {"testcase", "result"} =>
                \E i \in CallsOf("create", "testrun") : i < j /\ ~FailedCall(i)

\* C15 witness: every step of the resolution issued a call, the test run's
\* creation last
C15_Witness ==
    /\ {StepOf(i) : i \in ResolutionCalls} = DOMAIN ResolutionOrder
    /\ reporter

\* C15 witness of a failure: the creation of the component failed and the
\* process has ended
C15_WitnessFailed ==
    /\ pc = "exit"
    /\ \E i \in CallsOf("create", "component") : FailedCall(i)


(***************************************************************************)
(* C16  The status of a result.                                             *)
(***************************************************************************)
\* what the output pattern's groups captured in a matching line, by name
GroupsByName(groups) == GroupDict(tester.output_regex, groups)

\* the status C16 gives a matching line: the status template '{0}!' rendered
\* on the first group, else the 'result' group's text, else BROKEN_TEST
StatusOf(groups) ==
    IF config.Test.result.some THEN Some(PyStr(groups[1]) \o <<"!">>)
    ELSE IF "result" \in DOMAIN GroupsByName(groups) THEN GroupsByName(groups)["result"]
    ELSE Some(<<"B", "R", "O", "K", "E", "N", "_", "T", "E", "S", "T">>)

\* C16: the status of the result filed for a matching line is the rendered
\* status template when [Test] has one, otherwise the text of the 'result'
\* group when the pattern declares one, otherwise BROKEN_TEST.
C16_StatusPriority ==
    \A i \in DOMAIN remote.results : remote.results[i].status = StatusOf(matches[i])

\* C16 witness: a status template is configured, the pattern declares a
\* 'result' group, and a result was filed
C16_Witness ==
    /\ config.Test.result.some
    /\ remote.results # <<>>
    /\ "result" \in DOMAIN GroupsByName(matches[1])

\* C16 witness of the last case: no template and no 'result' group
C16_WitnessBroken ==
    /\ ~config.Test.result.some
    /\ remote.results # <<>>
    /\ "result" \notin DOMAIN GroupsByName(matches[1])


(***************************************************************************)
(* C17  The default reason.                                                 *)
(***************************************************************************)
\* the i-th matching line's pattern declares a 'reason' group
DeclaresReason(i) == "reason" \in DOMAIN GroupsByName(matches[i])

\* that group took no part in the match
ReasonAbsent(i) == ~GroupsByName(matches[i])["reason"].some

\* that group matched the empty text
ReasonEmpty(i) == GroupsByName(matches[i])["reason"] = Some(<<>>)

\* the default reason: 'Output Indicated ' and the status resolved for the line
OutputIndicated(i) ==
    <<"O", "u", "t", "p", "u", "t", " ", "I", "n", "d", "i", "c", "a", "t", "e", "d", " ">>
        \o PyStr(remote.results[i].status)

\* the reason of the i-th result when the reason field holds that text: the
\* template '{reason}: {counts}' rendered with it, or the text itself
ReasonFrom(i, text) ==
    IF config.Test.reason.some
    THEN Some(text \o <<":", " ">> \o GroupsByName(matches[i])["counts"].val)
    ELSE Some(text)

\* C17 as stated: when the 'reason' group is empty or took no part in the
\* match, the reason of the result is the template, or the group, applied to
\* the default reason.
C17_AsStated ==
    \A i \in DOMAIN remote.results :
        (DeclaresReason(i) /\ (ReasonAbsent(i) \/ ReasonEmpty(i))) =>
            remote.results[i].reason = ReasonFrom(i, OutputIndicated(i))

\* C17: when the 'reason' group took no part in the match, the reason of the
\* result is the template, or the group, applied to the default reason, which
\* embeds the resolved status; a 'reason' group that matched, the empty text
\* included, is used as it is.
C17_AbsentReasonOnly ==
    \A i \in DOMAIN remote.results :
        DeclaresReason(i) =>
            remote.results[i].reason =
                ReasonFrom(i, IF ReasonAbsent(i) THEN OutputIndicated(i)
                              ELSE GroupsByName(matches[i])["reason"].val)

\* C17 witness: a result was filed for a line whose 'reason' group took no
\* part in the match, with a status template configured
C17_Witness ==
    \E i \in DOMAIN remote.results :
        DeclaresReason(i) /\ ReasonAbsent(i) /\ config.Test.result.some

\* C17 witness of the empty group: a result was filed for a line whose
\* 'reason' group matched the empty text
C17_WitnessEmpty ==
    \E i \in DOMAIN remote.results : DeclaresReason(i) /\ ReasonEmpty(i)


(***************************************************************************)
(* C18  The duration of a result and the timing baseline.                   *)
(***************************************************************************)
\* the step files a result for the line it reads
FilesLine ==
    /\ linesRead' = linesRead + 1
    /\ Len(remote'.results) = Len(remote.results) + 1

\* the text the line gives for its duration: the runlength template '{0}'
\* rendered on the first group when [Test] has one, else the 'runlength'
\* group when the pattern declares it, else none
DurationText(groups) ==
    IF config.Test.runlength.some THEN Some(PyStr(groups[1]))
    ELSE IF "runlength" \in DOMAIN GroupsByName(groups)
    THEN GroupsByName(groups)["runlength"]
    ELSE None

\* the duration C18 gives the line read at time now with the baseline given
DurationOf(groups, baseline, now) ==
    IF DurationText(groups).some /\ PyInt(DurationText(groups)).ok
    THEN PyInt(DurationText(groups)).val
    ELSE NowMs(now) - baseline

\* C18: the result filed for a matching line has the integer parsed from its
\* duration source (the runlength template, or without one the 'runlength'
\* group) as its duration when there is one and it parses, and otherwise the
\* milliseconds between the baseline and the match;
\* the baseline is the time of the spawn at first, becomes the time of the
\* match whenever a matching line is processed, whichever the source of the
\* duration, and is left alone by a line that does not match.
C18_Duration ==
    [][/\ FilesLine =>
            remote'.results[Len(remote'.results)].runlength =
                DurationOf(lastLine'.groups, begin, clock')
       /\ (~spawned /\ spawned') => begin' = NowMs(clock')
       /\ (linesRead' = linesRead + 1 /\ pc' = "loop") =>
            begin' = IF lastLine'.matched THEN NowMs(clock') ELSE begin]_vars

\* C18 witness: neither a runlength template nor a 'runlength' group; two
\* lines matched, each a millisecond after the baseline, and the baseline is
\* the second match
C18_Witness ==
    /\ Len(remote.results) = 2
    /\ ~DurationText(matches[1]).some
    /\ remote.results[1].runlength = 1
    /\ remote.results[2].runlength = 1
    /\ begin = remote.results[2].end

\* C18 witness of the parsed duration: a result whose duration is the
\* 'runlength' group's 450 was filed, after which the baseline is the time of
\* that match
C18_WitnessParsed ==
    /\ remote.results # <<>>
    /\ remote.results[1].runlength = 450
    /\ begin = remote.results[1].end
    /\ begin > 0

\* C18 witness of a template that does not parse: the template renders PASS,
\* the 'runlength' group is 450, and the duration is the elapsed millisecond
C18_WitnessUnparsed ==
    /\ config.Test.runlength.some
    /\ remote.results # <<>>
    /\ matches[1] = PassMatch
    /\ remote.results[1].runlength = 1


(***************************************************************************)
(* C19  A [Test] section the tester rejects.                                *)
(***************************************************************************)
\* a required key of [Test] is missing
RequiredMissing == ~config.Test.command.some \/ ~config.Test.output_regex.some

\* output.regex does not compile
PatternInvalid == config.Test.output_regex.some /\ ~config.Test.output_regex.val.valid

\* the test run was finalized: one update was sent, for the run created, in
\* state FINISHED, and the stored run is FINISHED when the update went through
Finalized ==
    /\ Cardinality(CallsOf("update", "testrun")) = 1
    /\ \A i \in CallsOf("update", "testrun") :
            /\ calls[i].state = "FINISHED"
            /\ calls[i].id = slick.testrun.id
            /\ calls[i].outcome = "ok" => remote.testruns[1].state = "FINISHED"

\* C19: when output.regex is invalid or 'command' or 'output.regex' is
\* missing, the command is never spawned, no test case is looked up and no
\* result is filed; and once the resolution has created the test run, the
\* process ends with a non-zero status and with that test run finalized.
C19_RejectedBeforeSpawn ==
    (RequiredMissing \/ PatternInvalid) =>
        /\ ~spawned
        /\ pc \notin {"run_command", "loop"}
        /\ remote.results = <<>>
        /\ \A i \in DOMAIN calls : calls[i].kind \notin {"testcase", "result"}
        /\ (pc = "exit" /\ TestrunCreated) => (exitStatus # 0 /\ Finalized)

\* C19 witness: output.regex is invalid, the test run was created, and the
\* process has ended with the run FINISHED
C19_Witness ==
    /\ PatternInvalid
    /\ pc = "exit"
    /\ TestrunCreated
    /\ remote.testruns[1].state = "FINISHED"

\* C19 witness of a missing key: 'command' is missing, the test run was
\* created, and the process has ended with the run FINISHED
C19_WitnessMissing ==
    /\ ~config.Test.command.some
    /\ pc = "exit"
    /\ TestrunCreated
    /\ remote.testruns[1].state = "FINISHED"


(***************************************************************************)
(* C20  The error of a missing [Test] key.                                  *)
(***************************************************************************)
\* C20 as stated: when a required key of [Test] is missing, the error
\* CommandTester's constructor raises is a ConfigurationError, and main
\* handles it in its ConfigurationError clause and exits with status 1.
C20_AsStated ==
    (RequiredMissing /\ TestrunCreated) =>
        /\ pc = "except" => raised = "ConfigurationError"
        /\ pc \in {"finally", "exit"} =>
                handler = "ConfigurationError" /\ exitStatus = 1


(***************************************************************************)
(* C21  The run context after Slick's constructor has returned.             *)
(***************************************************************************)
\* a stored test run but for what finish_testrun sends: the state and the end
ButFinish(run) == [run EXCEPT !.state = "", !.runFinished = NoTime]

\* C21: every step taken after Slick's constructor has returned (the
\* construction of the tester, the classification of a line, the filing of a
\* result, the except and finally clauses) leaves the project, release, build,
\* component and test plan references of the Slick object as they were, and
\* leaves the remote project, the remote test plans and every field of the
\* remote test run other than its state and its end timestamp as they were.
C21_ContextFrame ==
    [][reporter =>
            /\ slick' = slick
            /\ remote'.project = remote.project
            /\ remote'.testplans = remote.testplans
            /\ DOMAIN remote'.testruns = DOMAIN remote.testruns
            /\ \A i \in DOMAIN remote.testruns :
                    ButFinish(remote'.testruns[i]) = ButFinish(remote.testruns[i])]_vars

\* C21 witness: after the constructor created the release and the component,
\* a result was filed and the test run was finalized
C21_Witness ==
    /\ pc = "exit"
    /\ reporter
    /\ slick.releaseref.id >= FirstNewId
    /\ slick.componentref.id >= FirstNewId
    /\ remote.results # <<>>
    /\ remote.testruns[1].state = "FINISHED"
    /\ remote.testruns[1].release = slick.releaseref


(***************************************************************************)
(* C22  One test case per name within a run.                                *)
(***************************************************************************)
\* the test case names the run has looked up
LookedUp == {calls[i].name : i \in CallsOf("findOne", "testcase")}

\* the stored results filed under the name
ResultsNamed(n) == {i \in DOMAIN remote.results : remote.results[i].testcase.name = n}

\* the matching lines that render to the name
LinesNamed(n) == {i \in DOMAIN matches : NameOf(matches[i]) = n}

\* C22: for every test case name the run looks up, at most one create call of
\* a test case of that name is ever issued, and none when a test case of
\* exactly that name was there before the run; the remote holds at most one
\* test case of the name, every result filed under the name references that
\* one test case, and when the output was processed to its end the results of
\* the name are as many as the matching lines that render to it.  A test case
\* whose name differs in letter case is not the one referenced.
C22_OneTestcasePerName ==
    \A n \in LookedUp :
        /\ Cardinality(Creates("testcase", n)) <= 1
        /\ Existing(remote.testcases, n) # {} => Creates("testcase", n) = {}
        /\ Cardinality(Named(remote.testcases, n)) <= 1
        /\ \A i \in ResultsNamed(n) :
                /\ \E t \in Named(remote.testcases, n) : remote.results[i].testcase = Ref(t)
                /\ \A t \in remote.testcases :
                        t.name # n => remote.results[i].testcase.id # t.id
        /\ ProcessedToEnd => Cardinality(ResultsNamed(n)) = Cardinality(LinesNamed(n))

\* C22 witness: two lines rendered to one name that was absent; one test case
\* was created and both results reference it
C22_Witness ==
    /\ ProcessedToEnd
    /\ Len(matches) = 2
    /\ \E n \in LookedUp :
            /\ Cardinality(LinesNamed(n)) = 2
            /\ Cardinality(Created("testcase", n)) = 1
            /\ Cardinality(ResultsNamed(n)) = 2
            /\ remote.results[1].testcase = remote.results[2].testcase

\* C22 witness of an existing name: two lines rendered to the name of the test
\* case that was there, and both results reference it with no create
C22_WitnessExisting ==
    /\ ProcessedToEnd
    /\ Cardinality(LinesNamed(ExistingTestcase.name)) = 2
    /\ Creates("testcase", ExistingTestcase.name) = {}
    /\ \A i \in {1, 2} : remote.results[i].testcase = Ref(ExistingTestcase)

\* C22 witness of letter case: with T2 there before the run, a line named t2
\* was filed under a test case created for it
C22_WitnessLetterCase ==
    /\ CaseVariantTestcase \in remote.testcases
    /\ \E i \in DOMAIN remote.results :
            /\ remote.results[i].testcase.name = <<"t", "2">>
            /\ remote.results[i].testcase.id >= FirstNewId


(***************************************************************************)
(* C24  Results are filed while the test run is open.                       *)
(***************************************************************************)
\* the stored test runs a result references
RunsOf(result) ==
    {i \in DOMAIN remote.testruns : remote.testruns[i].id = result.testrun.id}

\* C24: every result create call comes after the successful creation of the
\* test run and before any finalizing update, and carries an end timestamp at
\* or after the start sent with the creation and at or before the end sent
\* with the update; every stored result references the test run of this
\* invocation, its end is at or after that run's runStarted and, once the run
\* is FINISHED, at or before its runFinished; and once the run is FINISHED the
\* process has ended, so nothing is filed after.
C24_FiledWhileOpen ==
    /\ \A i \in CallsOf("create", "result") :
            /\ \E j \in CallsOf("create", "testrun") :
                    /\ j < i
                    /\ calls[j].outcome = "ok"
                    /\ calls[j].time <= calls[i].time
            /\ \A k \in CallsOf("update", "testrun") :
                    i < k /\ calls[i].time <= calls[k].time
    /\ \A i \in DOMAIN remote.results :
            LET result == remote.results[i]
            IN  /\ result.testrun.id = slick.testrun.id
                /\ RunsOf(result) # {}
                /\ \A r \in RunsOf(result) :
                        LET run == remote.testruns[r]
                        IN  /\ run.runStarted <= result.end
                            /\ run.state = "FINISHED" => result.end <= run.runFinished
    /\ (\E r \in DOMAIN remote.testruns : remote.testruns[r].state = "FINISHED") =>
            pc = "exit"

\* C24 witness: two results were filed at different times after the test run
\* started, and the run was finalized after the last
C24_Witness ==
    /\ pc = "exit"
    /\ Len(remote.results) = 2
    /\ remote.testruns[1].state = "FINISHED"
    /\ remote.testruns[1].runStarted < remote.results[1].end
    /\ remote.results[1].end < remote.results[2].end
    /\ remote.results[2].end <= remote.testruns[1].runFinished


(***************************************************************************)
(* C23  Two invocations and one name.                                       *)
(***************************************************************************)
\* the entities of the name that were created since the start
CreatedSince(entities, name) == {e \in Named(entities, name) : e.id >= FirstNewId}

=============================================================================
